---- MODULE Spec2Model ----
(***************************************************************************)
(* Model of src/src/rp_handler.py: the RunPod job handler that validates a *)
(* job, waits for the ComfyUI server, uploads the input files, queues the  *)
(* workflow, polls /history and collects the output files.                 *)
(*                                                                         *)
(* Python dicts are records, Python lists are sequences.  Every HTTP call  *)
(* is one step whose answer is chosen by the environment.                  *)
(***************************************************************************)
EXTENDS Integers, Sequences, FiniteSets, TLC

\* ------------------------------------------------------------------ bounds
\* longest images list of a job input
MaxImages == 2
\* longest images list of a job input that arrives as a JSON string
MaxJsonImages == 1
\* largest value of the COMFY_POLLING_MAX_RETRIES environment setting
MaxPollingRetries == 2
\* most file descriptors in the outputs of a direct process_output_files call
MaxOutputs == 2
\* largest retries argument of a direct check_server call
MaxProbeRetries == 5
\* COMFY_API_AVAILABLE_MAX_RETRIES, 500 in the source, scaled down
COMFY_API_AVAILABLE_MAX_RETRIES == 2

\* ------------------------------------------------------- program constants
COMFY_API_AVAILABLE_INTERVAL_MS == 50

\* ------------------------------------------------------------ value spaces
None == [none |-> TRUE]

\* file names carried by the images entries; NoName: the entry has no "name"
Names == {"a", "b"}
NoName == "-"

\* one entry of the images list: which of the keys name / image / url it has
ImageEntries == [name : Names \cup {NoName}, image : BOOLEAN, url : BOOLEAN]

RECURSIVE SeqsUpTo(_, _)
SeqsUpTo(S, n) ==
    IF n = 0 THEN {<<>>}
    ELSE LET shorter == SeqsUpTo(S, n - 1)
         IN  shorter \cup {Append(s, e) : s \in {t \in shorter : Len(t) = n - 1}, e \in S}

\* the "images" value of an object: absent (or null), present but no list, a list
ImagesValues ==
    {[is |-> "absent", items |-> <<>>], [is |-> "notlist", items |-> <<>>]}
    \cup {[is |-> "list", items |-> s] : s \in SeqsUpTo(ImageEntries, MaxImages)}

\* the "workflow" value of an object: key absent, key present with null, a graph
WorkflowValues == {"absent", "null", "graph"}

\* a JSON value: an object with its workflow and images, or something that is
\* no object (an array, a number, ...)
JsonValues ==
    {[kind |-> "object", workflow |-> w, images |-> im] :
        w \in WorkflowValues, im \in ImagesValues}
    \cup {[kind |-> "array", workflow |-> "absent",
           images |-> [is |-> "absent", items |-> <<>>]]}

\* job["input"]: None, a string that is no JSON, a string holding a JSON value,
\* or an already structured value
JobInputs ==
    {[raw |-> "none", parses |-> FALSE, value |-> None],
     [raw |-> "str", parses |-> FALSE, value |-> None]}
    \cup {[raw |-> "struct", parses |-> TRUE, value |-> v] : v \in JsonValues}
    \cup {[raw |-> "str", parses |-> TRUE, value |-> v] :
            v \in {j \in JsonValues : Len(j.images.items) <= MaxJsonImages}}

\* ------------------------------------------------------------- validation
MSG_NO_INPUT == "Please provide input"
MSG_BAD_JSON == "Invalid JSON format in input"
MSG_NO_WORKFLOW == "Missing 'workflow' parameter"
MSG_BAD_IMAGES ==
    "'images' must be a list of objects with 'name' and either 'image' (base64) or 'url'"

\* the check of line 44 without `and "name" in image`
EntryOkNameUnchecked(image) == image.image \/ image.url

\* the check of line 44 asking for exactly one of image and url
EntryOkExactlyOne(image) == (image.image # image.url) /\ image.name # NoName

\* any(k in image for k in ("image", "url")) and "name" in image
EntryOk(image) == (image.image \/ image.url) /\ image.name # NoName

ImagesOk(images) ==
    images.is = "list" /\ \A k \in 1..Len(images.items) : EntryOk(images.items[k])

\* validate_input without the check of lines 38-39
validate_input_workflow_unchecked(job_input) ==
    IF job_input.raw = "none"
    THEN [ret |-> "err", msg |-> MSG_NO_INPUT, data |-> None]
    ELSE IF job_input.raw = "str" /\ ~job_input.parses
    THEN [ret |-> "err", msg |-> MSG_BAD_JSON, data |-> None]
    ELSE IF job_input.value.kind # "object"
    THEN [ret |-> "raise", msg |-> "AttributeError", data |-> None]
    ELSE IF job_input.value.images.is # "absent" /\ ~ImagesOk(job_input.value.images)
    THEN [ret |-> "err", msg |-> MSG_BAD_IMAGES, data |-> None]
    ELSE [ret |-> "ok", msg |-> "",
          data |-> [workflow |-> job_input.value.workflow,
                    images |-> job_input.value.images]]

\* validate_input: ret = "ok" with data, ret = "err" with msg, or ret = "raise"
\* when .get is called on a value that is no dict (AttributeError)
validate_input(job_input) ==
    IF job_input.raw = "none"
    THEN [ret |-> "err", msg |-> MSG_NO_INPUT, data |-> None]
    ELSE IF job_input.raw = "str" /\ ~job_input.parses
    THEN [ret |-> "err", msg |-> MSG_BAD_JSON, data |-> None]
    ELSE IF job_input.value.kind # "object"
    THEN [ret |-> "raise", msg |-> "AttributeError", data |-> None]
    ELSE IF job_input.value.workflow # "graph"
    THEN [ret |-> "err", msg |-> MSG_NO_WORKFLOW, data |-> None]
    ELSE IF job_input.value.images.is # "absent" /\ ~ImagesOk(job_input.value.images)
    THEN [ret |-> "err", msg |-> MSG_BAD_IMAGES, data |-> None]
    ELSE [ret |-> "ok", msg |-> "",
          data |-> [workflow |-> job_input.value.workflow,
                    images |-> job_input.value.images]]


\* ------------------------------------------------------------------ state
VARIABLES
    job_input,             \* job["input"]
    polling_max_retries,   \* COMFY_POLLING_MAX_RETRIES, read from the environment
    entry,                 \* the function that was called: "handler" or "check_server"
    pc,                    \* where the call is
    stages,                \* the pipeline stages entered so far, in order
    failed,                \* the stage that failed terminally, "none" so far
    result,                \* the value returned
    returned,              \* "no", "value" (returned result) or "exception" (raised)
    validated_data,        \* handler: validated_data
    probe_retries,         \* check_server: retries
    probe_delay,           \* check_server: delay
    i,                     \* check_server: loop index
    server_ready,          \* check_server: "pending", or its return value "true" / "false"
    last_status,           \* check_server: outcome of the last GET
    ready_gets,            \* GET http://COMFY_HOST issued
    probe_sleeps,          \* time.sleep calls of check_server
    slept_ms,              \* milliseconds slept in check_server
    idx,                   \* upload_images: position in images
    responses,             \* upload_images: responses
    upload_errors,         \* upload_images: upload_errors
    upload_result,         \* handler: upload_result
    download_gets,         \* GET image["url"] issued, by entry name
    upload_posts,          \* POST /upload/image issued, by entry name
    entry_outcomes,        \* what happened to each entry processed so far
    prompt_posts,          \* POST /prompt issued
    prompt_id,             \* handler: prompt_id
    retries,               \* handler: retries
    history,               \* handler: history
    history_gets,          \* GET /history/<prompt_id> issued
    poll_sleeps,           \* time.sleep calls of the polling loop
    last_poll,             \* outcome of the last GET /history: "none", "response", "exception"
    collect_env,           \* process_output_files: the files on disk and BUCKET_ENDPOINT_URL
    file_ops               \* rp_upload.upload_image and base64_encode calls made, in order

inputVars == <<job_input, polling_max_retries, entry>>
ctlVars == <<pc, stages, failed, result, returned, validated_data>>
probeVars == <<probe_retries, probe_delay, i, server_ready, last_status,
               ready_gets, probe_sleeps, slept_ms>>
uploadVars == <<idx, responses, upload_errors, upload_result, download_gets, upload_posts,
                entry_outcomes>>
pollVars == <<prompt_posts, prompt_id, retries, history, history_gets, poll_sleeps,
              last_poll>>
collectVars == <<collect_env, file_ops>>
vars == <<inputVars, ctlVars, probeVars, uploadVars, pollVars, collectVars>>

\* --------------------------------------------------------- pipeline stages
StageOrder == <<"Validating", "ProbingReadiness", "Uploading", "Submitting",
                "Polling", "Collecting">>

\* the stage a position of handler belongs to
StageOf(p) ==
    CASE p = "validate" -> "Validating"
      [] p = "check_server" -> "ProbingReadiness"
      [] p \in {"upload_images", "upload_loop"} -> "Uploading"
      [] p = "queue_workflow" -> "Submitting"
      [] p = "poll" -> "Polling"
      [] p = "collect" -> "Collecting"
      [] OTHER -> "Done"

Goto(p) ==
    /\ pc' = p
    /\ stages' = IF stages # <<>> /\ stages[Len(stages)] = StageOf(p)
                 THEN stages ELSE Append(stages, StageOf(p))

\* return value from the function that was called
Return(value) ==
    /\ Goto("done")
    /\ result' = value
    /\ returned' = "value"

\* an exception leaves the function that was called
Raise ==
    /\ Goto("done")
    /\ result' = None
    /\ returned' = "exception"

NoHistory == [entry |-> FALSE, outputs |-> <<>>]

\* ------------------------------------------------------------------- Init
InitCommon ==
    /\ stages = <<StageOf(pc)>>
    /\ failed = "none"
    /\ result = None
    /\ returned = "no"
    /\ validated_data = None
    /\ i = 0
    /\ server_ready = "pending"
    /\ last_status = "none"
    /\ ready_gets = 0
    /\ probe_sleeps = 0
    /\ slept_ms = 0
    /\ idx = 0
    /\ responses = <<>>
    /\ upload_errors = <<>>
    /\ upload_result = None
    /\ download_gets = <<>>
    /\ upload_posts = <<>>
    /\ entry_outcomes = <<>>
    /\ prompt_posts = 0
    /\ prompt_id = "unset"
    /\ retries = 0
    /\ history_gets = 0
    /\ poll_sleeps = 0
    /\ last_poll = "none"
    /\ collect_env = None
    /\ file_ops = <<>>

\* handler(job) has been called
Init ==
    /\ entry = "handler"
    /\ pc = "validate"
    /\ job_input \in JobInputs
    /\ polling_max_retries \in -1..MaxPollingRetries
    /\ probe_retries = 0
    /\ probe_delay = 0
    /\ history = NoHistory
    /\ InitCommon

\* ---------------------------------------------------------------- handler
\* handler lines 255-265: where the handler goes after validate_input
AfterValidation(v) ==
    CASE v.ret = "err" -> "done"
      [] v.ret = "raise" -> "done"
      [] OTHER -> "check_server"

Validate ==
    /\ pc = "validate"
    /\ LET v == validate_input(job_input)
       IN  /\ failed' = IF v.ret = "ok" THEN "none" ELSE "Validating"
           /\ IF AfterValidation(v) = "done"
              THEN /\ IF v.ret = "raise" THEN Raise ELSE Return([error |-> v.msg])
                   /\ UNCHANGED <<validated_data, probe_retries, probe_delay>>
              ELSE /\ Goto(AfterValidation(v))
                   /\ validated_data' = v.data
                   /\ probe_retries' = COMFY_API_AVAILABLE_MAX_RETRIES
                   /\ probe_delay' = COMFY_API_AVAILABLE_INTERVAL_MS
                   /\ UNCHANGED <<result, returned>>
    /\ UNCHANGED <<inputVars, collectVars, i, server_ready, last_status, ready_gets, probe_sleeps,
                   slept_ms, uploadVars, pollVars>>

\* ----------------------------------------------------------- check_server
\* what a GET of the server root can give: HTTP 200, another status, or a
\* requests.RequestException
ProbeOutcomes == {"200", "non200", "exception"}

\* check_server that takes any answer, whatever its status, for ready
ProbeReadyAnyStatus(outcome) == outcome # "exception"

\* line 62: response.status_code == 200
ProbeReady(outcome) == outcome = "200"

\* line 59: for i in range(retries)
ProbeLoopRuns(n, r) == n < r

\* a handler that gives up when check_server returns False
ProbeReturnFatal(ready) ==
    /\ server_ready' = IF ready THEN "true" ELSE "false"
    /\ IF entry = "handler"
       THEN IF ready
            THEN /\ Goto("upload_images")
                 /\ UNCHANGED <<result, returned, failed>>
            ELSE /\ Return([error |-> "ComfyUI server not reachable"])
                 /\ failed' = "ProbingReadiness"
       ELSE /\ Return([value |-> ready])
            /\ UNCHANGED failed

\* check_server returns `ready`; handler (lines 263-268) does not look at the
\* value and goes on to upload_images
ProbeReturn(ready) ==
    /\ server_ready' = IF ready THEN "true" ELSE "false"
    /\ IF entry = "handler"
       THEN /\ Goto("upload_images")
            /\ UNCHANGED <<result, returned>>
       ELSE Return([value |-> ready])
    /\ UNCHANGED failed

\* one pass of the loop body, lines 60-67
CheckServerAttempt ==
    /\ pc = "check_server"
    /\ ProbeLoopRuns(i, probe_retries)
    /\ \E outcome \in ProbeOutcomes :
        /\ ready_gets' = ready_gets + 1
        /\ last_status' = outcome
        /\ IF ProbeReady(outcome)
           THEN /\ ProbeReturn(TRUE)
                /\ UNCHANGED <<i, probe_sleeps, slept_ms>>
           ELSE /\ probe_sleeps' = probe_sleeps + 1
                /\ slept_ms' = slept_ms + probe_delay
                /\ i' = i + 1
                /\ UNCHANGED <<pc, stages, failed, result, returned, server_ready>>
    /\ UNCHANGED <<inputVars, collectVars, validated_data, probe_retries, probe_delay,
                   uploadVars, pollVars>>

\* the loop is over, lines 69-70
CheckServerExhausted ==
    /\ pc = "check_server"
    /\ ~ProbeLoopRuns(i, probe_retries)
    /\ ProbeReturn(FALSE)
    /\ UNCHANGED <<inputVars, collectVars, validated_data, probe_retries, probe_delay, i, last_status,
                   ready_gets, probe_sleeps, slept_ms, uploadVars, pollVars>>


\* ---------------------------------------------------------- upload_images
\* what can happen to one entry, by the branch of lines 92-113 it takes:
\* the download GET answers non-200 or raises (also: writing or reading the
\* temporary file raises), base64.b64decode raises, or the POST is issued and
\* answers 200, answers another status, or raises
EntryOutcomes(image) ==
    IF image.url
    THEN {"download_non200", "download_exception", "post_200", "post_non200",
          "post_exception"}
    ELSE IF image.image
    THEN {"decode_exception", "post_200", "post_non200", "post_exception"}
    ELSE {"no_source"}

\* whether the entry's download GET / upload POST is issued
IssuesDownload(image, o) == image.url
IssuesPost(image, o) == o \in {"post_200", "post_non200", "post_exception"}

\* upload_images that does not check response.status_code of the POST
EntryErrorStatusUnchecked(image, o) ==
    CASE o = "download_non200" -> [msg |-> "Failed to download", name |-> image.name]
      [] o = "no_source" -> [msg |-> "No valid 'url' or 'image' found for", name |-> image.name]
      [] o \in {"download_exception", "decode_exception", "post_exception"} ->
             [msg |-> "Error processing", name |-> image.name]
      [] OTHER -> None

\* the message appended to upload_errors, None when the entry succeeded
EntryError(image, o) ==
    CASE o = "download_non200" -> [msg |-> "Failed to download", name |-> image.name]
      [] o = "no_source" -> [msg |-> "No valid 'url' or 'image' found for", name |-> image.name]
      [] o = "post_non200" -> [msg |-> "Error uploading", name |-> image.name]
      [] o \in {"download_exception", "decode_exception", "post_exception"} ->
             [msg |-> "Error processing", name |-> image.name]
      [] OTHER -> None

\* lines 129-134
UploadResult(errs, resps) ==
    IF errs # <<>>
    THEN [status |-> "error", message |-> "Some files failed to upload", details |-> errs]
    ELSE [status |-> "success", message |-> "All inputs uploaded successfully",
          details |-> resps]

\* line 78: if not images
NoImages(images) == images.is = "absent" \/ images.items = <<>>

\* handler that does not look at the status of upload_result
UploadFailedIgnored(res) == FALSE

\* handler lines 269-270
UploadFailed(res) == res.status = "error"

\* upload_images returns res to handler, lines 268-270
UploadReturn(res) ==
    /\ upload_result' = res
    /\ failed' = IF res.status = "error" THEN "Uploading" ELSE "none"
    /\ IF UploadFailed(res)
       THEN Return(res)
       ELSE /\ Goto("queue_workflow")
            /\ UNCHANGED <<result, returned>>

\* lines 76-84
UploadStart ==
    /\ pc = "upload_images"
    /\ IF NoImages(validated_data.images)
       THEN /\ UploadReturn([status |-> "success", message |-> "No input files to upload",
                             details |-> <<>>])
            /\ UNCHANGED idx
       ELSE /\ Goto("upload_loop")
            /\ idx' = 1
            /\ UNCHANGED <<failed, result, returned, upload_result>>
    /\ UNCHANGED <<inputVars, collectVars, validated_data, probeVars, responses, upload_errors,
                   download_gets, upload_posts, entry_outcomes, pollVars>>

\* a loop that puts the newest response first
AddResponseFirst(resps, image) == <<[msg |-> "Uploaded", name |-> image.name]>> \o resps

\* line 124: responses.append(...)
AddResponse(resps, image) == Append(resps, [msg |-> "Uploaded", name |-> image.name])

\* a loop that stops at the first entry that failed
NextEntryStopsOnFailure(n, entry_failed, len) == IF entry_failed THEN len + 1 ELSE n + 1

\* a loop that tries an entry again when it failed
NextEntryRetriesFailure(n, entry_failed, len) == IF entry_failed THEN n ELSE n + 1

\* line 86: the for loop goes on to the next entry of the list, whether the
\* entry failed (continue of lines 105 and 113, except of lines 126-127) or not
NextEntry(n, entry_failed, len) == n + 1

\* one pass of the loop body, lines 86-127
UploadEntry ==
    /\ pc = "upload_loop"
    /\ idx <= Len(validated_data.images.items)
    /\ LET image == validated_data.images.items[idx]
       IN  \E o \in EntryOutcomes(image) :
            /\ entry_outcomes' = Append(entry_outcomes, o)
            /\ download_gets' = IF IssuesDownload(image, o)
                                THEN Append(download_gets, image.name) ELSE download_gets
            /\ upload_posts' = IF IssuesPost(image, o)
                               THEN Append(upload_posts, image.name) ELSE upload_posts
            /\ IF EntryError(image, o) # None
               THEN /\ upload_errors' = Append(upload_errors, EntryError(image, o))
                    /\ UNCHANGED responses
               ELSE /\ responses' = AddResponse(responses, image)
                    /\ UNCHANGED upload_errors
            /\ idx' = NextEntry(idx, EntryError(image, o) # None,
                                Len(validated_data.images.items))
    /\ UNCHANGED <<inputVars, collectVars, ctlVars, probeVars, upload_result, pollVars>>

\* the loop is over, lines 129-134
UploadFinish ==
    /\ pc = "upload_loop"
    /\ idx > Len(validated_data.images.items)
    /\ UploadReturn(UploadResult(upload_errors, responses))
    /\ UNCHANGED <<inputVars, collectVars, validated_data, probeVars, idx, responses, upload_errors,
                   download_gets, upload_posts, entry_outcomes, pollVars>>


\* --------------------------------------------------------- queue_workflow
\* POST /prompt answers a JSON object with prompt_id, or urlopen / json.loads /
\* queued["prompt_id"] raises
QueueOutcomes == {"queued", "exception"}

\* handler lines 273-278
QueueWorkflow ==
    /\ pc = "queue_workflow"
    /\ prompt_posts' = prompt_posts + 1
    /\ \E o \in QueueOutcomes :
        IF o = "queued"
        THEN /\ prompt_id' = "p1"
             /\ Goto("poll")
             /\ UNCHANGED <<failed, result, returned>>
        ELSE /\ failed' = "Submitting"
             /\ Return([error |-> "Error queuing workflow"])
             /\ UNCHANGED prompt_id
    /\ UNCHANGED <<inputVars, collectVars, validated_data, probeVars, uploadVars, retries, history,
                   history_gets, poll_sleeps, last_poll>>

\* --------------------------------------------------- outputs of a workflow
\* the keys of a node's output that process_output_files looks at, in its order
OutputKeys == <<"images", "gifs", "videos", "output">>

NoFilename == ""
\* filenames that contain the substring "-audio"
AudioFilenames == {"clip-audio.mp4"}
Filenames == {"img.png", "clip.mp4"} \cup AudioFilenames

Subfolders == {"", "sub"}
\* a file descriptor: its filename (NoFilename when it has none) and its
\* subfolder ("" when it has none, line 185)
File(fn, sub) == [filename |-> fn, subfolder |-> sub]
\* os.path.join(COMFY_OUTPUT_PATH, subfolder, filename), lines 184-186: the
\* components below the output root; an empty subfolder adds none
Join(sub, fn) == IF sub = "" THEN <<fn>> ELSE <<sub, fn>>
\* os.path.basename(local_path), line 201: the last component
Basename(path) == path[Len(path)]

\* a node's output: for each key the list of its file descriptors (the empty
\* list when the key is absent)
Node(im, gi, vi, ou) == [images |-> im, gifs |-> gi, videos |-> vi, output |-> ou]

\* the outputs manifests the server answers with: lists of nodes
Manifests ==
    { <<Node(<<File("img.png", "")>>, <<>>, <<>>, <<>>)>>,
      <<Node(<<>>, <<>>, <<File("clip.mp4", "")>>, <<File("clip-audio.mp4", "sub")>>)>>,
      <<Node(<<File(NoFilename, "")>>, <<>>, <<>>, <<>>)>>,
      <<Node(<<>>, <<File("img.png", "sub")>>, <<>>, <<>>),
        Node(<<>>, <<>>, <<File("clip-audio.mp4", "")>>, <<>>)>> }

\* what GET /history/<prompt_id> can answer: no entry for the id, an entry
\* with no or empty outputs, an entry with outputs
HistoryResponses ==
    {NoHistory, [entry |-> TRUE, outputs |-> <<>>]}
    \cup {[entry |-> TRUE, outputs |-> m] : m \in Manifests}

\* ---------------------------------------------------------------- polling
\* the loop test of line 284 written with <= instead of <
PollLoopRunsOffByOne(n, max) == n <= max

\* line 284: while retries < COMFY_POLLING_MAX_RETRIES
PollLoopRuns(n, max) == n < max

\* the test of line 286 without `and history[prompt_id].get("outputs")`
PollSatisfiedAnyEntry(h) == h.entry

\* line 286: prompt_id in history and history[prompt_id].get("outputs")
PollSatisfied(h) == h.entry /\ h.outputs # <<>>

\* the loop body without the increment of line 289
NextRetriesStuck(n) == n

\* line 289
NextRetries(n) == n + 1

\* a polling loop that swallows the exception and tries again, as check_server does
PollRaisedSwallowed ==
    /\ poll_sleeps' = poll_sleeps + 1
    /\ retries' = retries + 1
    /\ UNCHANGED <<pc, stages, failed, result, returned, history>>

\* lines 292-293: an exception of get_history leaves the loop
PollRaised ==
    /\ failed' = "Polling"
    /\ Return([error |-> "Error while waiting for generation"])
    /\ UNCHANGED <<history, retries, poll_sleeps>>

\* one pass of the loop body, lines 285-289, and the except of lines 292-293:
\* get_history answers, or it raises (urlopen, json.loads)
PollAttempt ==
    /\ pc = "poll"
    /\ PollLoopRuns(retries, polling_max_retries)
    /\ history_gets' = history_gets + 1
    /\ \/ \E h \in HistoryResponses :
            /\ last_poll' = "response"
            /\ history' = h
            /\ IF PollSatisfied(h)
               THEN /\ Goto("collect")
                    /\ UNCHANGED <<retries, poll_sleeps>>
               ELSE /\ poll_sleeps' = poll_sleeps + 1
                    /\ retries' = NextRetries(retries)
                    /\ UNCHANGED <<pc, stages>>
            /\ UNCHANGED <<failed, result, returned>>
       \/ /\ last_poll' = "exception"
          /\ PollRaised
    /\ UNCHANGED <<inputVars, collectVars, validated_data, probeVars, uploadVars, prompt_posts, prompt_id>>

MSG_MAX_RETRIES == "Max retries reached waiting for generation"

\* the else of the while, lines 290-291
PollExhausted ==
    /\ pc = "poll"
    /\ ~PollLoopRuns(retries, polling_max_retries)
    /\ failed' = "Polling"
    /\ Return([error |-> MSG_MAX_RETRIES])
    /\ UNCHANGED <<inputVars, collectVars, validated_data, probeVars, uploadVars, pollVars>>

\* --------------------------------------------------- process_output_files
REFRESH_WORKER == FALSE

\* the loop of lines 181-190 without the skip of lines 182-183
RECURSIVE KeyRecordsKeepsNameless(_, _)
KeyRecordsKeepsNameless(key, files) ==
    IF files = <<>> THEN <<>>
    ELSE <<[type |-> IF key \in {"videos", "output"} THEN "video" ELSE "image",
            path |-> Join(files[1].subfolder, files[1].filename)]>>
         \o KeyRecordsKeepsNameless(key, Tail(files))

\* lines 181-190: the records of one key of one node
RECURSIVE KeyRecords(_, _)
KeyRecords(key, files) ==
    IF files = <<>> THEN <<>>
    ELSE (IF files[1].filename = NoFilename THEN <<>>
          ELSE <<[type |-> IF key \in {"videos", "output"} THEN "video" ELSE "image",
                  path |-> Join(files[1].subfolder, files[1].filename)]>>)
         \o KeyRecords(key, Tail(files))

\* lines 179-190: the records of one node
NodeRecords(node) ==
    KeyRecords("images", node.images) \o KeyRecords("gifs", node.gifs)
    \o KeyRecords("videos", node.videos) \o KeyRecords("output", node.output)

\* lines 174-190: output_files
RECURSIVE OutputFiles(_)
OutputFiles(outputs) ==
    IF outputs = <<>> THEN <<>>
    ELSE NodeRecords(outputs[1]) \o OutputFiles(Tail(outputs))

\* lines 214-231 with the two branches of `if bucket_url` exchanged
ResultFileBranchesSwapped(item, exists, bucket) ==
    IF item.path \notin exists
    THEN [type |-> item.type, filename |-> Basename(item.path), status |-> "missing",
          message |-> <<"File not found: ", item.path>>]
    ELSE IF ~bucket
    THEN [type |-> item.type, filename |-> Basename(item.path), status |-> "uploaded",
          url |-> "uploaded_url"]
    ELSE [type |-> item.type, filename |-> Basename(item.path), status |-> "base64",
          data |-> "encoded"]

\* lines 198-231: the ResultFile of one record
ResultFile(item, exists, bucket) ==
    IF item.path \notin exists
    THEN [type |-> item.type, filename |-> Basename(item.path), status |-> "missing",
          message |-> <<"File not found: ", item.path>>]
    ELSE IF bucket
    THEN [type |-> item.type, filename |-> Basename(item.path), status |-> "uploaded",
          url |-> "uploaded_url"]
    ELSE [type |-> item.type, filename |-> Basename(item.path), status |-> "base64",
          data |-> "encoded"]

\* lines 233-243
IsAudioVideo(f) == f.type = "video" /\ f.filename \in AudioFilenames
IsVideo(f) == f.type = "video"

\* lines 233-243 without the first loop: the first video, whatever its name
PrimaryVideoFirstVideo(results) ==
    LET video == {k \in 1..Len(results) : results[k].type = "video"}
    IN  IF video # {} THEN results[CHOOSE k \in video : \A j \in video : k <= j]
        ELSE None

PrimaryVideo(results) ==
    LET audio == {k \in 1..Len(results) : IsAudioVideo(results[k])}
        video == {k \in 1..Len(results) : IsVideo(results[k])}
        first(S) == CHOOSE k \in S : \A j \in S : k <= j
    IN  IF audio # {} THEN results[first(audio)]
        ELSE IF video # {} THEN results[first(video)]
        ELSE None

\* process_output_files that gives up when a file is not on disk
process_output_files_missing_fatal(outputs, exists, bucket) ==
    LET output_files == OutputFiles(outputs)
        results == [k \in 1..Len(output_files) |-> ResultFile(output_files[k], exists, bucket)]
    IN  IF output_files = <<>>
           \/ \E k \in 1..Len(output_files) : output_files[k].path \notin exists
        THEN [status |-> "error", message |-> "No image or video outputs found."]
        ELSE [status |-> "success", files |-> results,
              primary_video |-> PrimaryVideo(results)]

\* lines 165-245, with `exists` the paths that are files on disk and `bucket`
\* whether BUCKET_ENDPOINT_URL is set
process_output_files(outputs, exists, bucket) ==
    LET output_files == OutputFiles(outputs)
        results == [k \in 1..Len(output_files) |-> ResultFile(output_files[k], exists, bucket)]
    IN  IF output_files = <<>>
        THEN [status |-> "error", message |-> "No image or video outputs found."]
        ELSE [status |-> "success", files |-> results,
              primary_video |-> PrimaryVideo(results)]

\* lines 213-231: the call made for a record whose file exists
FileOp(item, bucket) ==
    [op |-> IF bucket THEN "upload_image" ELSE "base64_encode", path |-> item.path]

\* lines 198-231: the calls made for the records, in order
RECURSIVE FileOps(_, _, _)
FileOps(output_files, exists, bucket) ==
    IF output_files = <<>> THEN <<>>
    ELSE (IF output_files[1].path \in exists
          THEN <<FileOp(output_files[1], bucket)>> ELSE <<>>)
         \o FileOps(Tail(output_files), exists, bucket)

\* line 300: handler merges refresh_worker into the result
HandlerResult(r) ==
    IF r.status = "error"
    THEN [status |-> r.status, message |-> r.message, refresh_worker |-> REFRESH_WORKER]
    ELSE [status |-> r.status, files |-> r.files, primary_video |-> r.primary_video,
          refresh_worker |-> REFRESH_WORKER]

\* process_output_files(outputs, job_id), lines 165-245, called by handler
\* (lines 296-300) or directly; rp_upload.upload_image or base64_encode of a
\* file that exists may raise, which ends the call
Collect ==
    /\ pc = "collect"
    /\ LET outputs == history.outputs
           output_files == OutputFiles(outputs)
           paths == {output_files[k].path : k \in 1..Len(output_files)}
       IN  \E exists \in SUBSET paths, bucket \in BOOLEAN :
            /\ collect_env' = [exists |-> exists, bucket |-> bucket]
            /\ \/ /\ file_ops' = FileOps(output_files, exists, bucket)
                  /\ LET r == process_output_files(outputs, exists, bucket)
                     IN  Return(IF entry = "handler" THEN HandlerResult(r) ELSE r)
               \/ \E j \in 1..Len(output_files) :
                    /\ output_files[j].path \in exists
                    /\ file_ops' = FileOps(SubSeq(output_files, 1, j), exists, bucket)
                    /\ Raise
    /\ UNCHANGED <<inputVars, failed, validated_data, probeVars, uploadVars, pollVars>>

\* ---------------------------------------------------------- specification
\* check_server(url, retries, delay) has been called on its own
ProbeDelays == {0, COMFY_API_AVAILABLE_INTERVAL_MS}

InitProbe ==
    /\ entry = "check_server"
    /\ pc = "check_server"
    /\ job_input = [raw |-> "none", parses |-> FALSE, value |-> None]
    /\ polling_max_retries = 0
    /\ probe_retries \in 0..MaxProbeRetries
    /\ probe_delay \in ProbeDelays
    /\ history = NoHistory
    /\ InitCommon

NextProbe == CheckServerAttempt \/ CheckServerExhausted

SpecProbe == InitProbe /\ [][NextProbe]_vars

\* process_output_files(outputs, job_id) has been called on its own
\* a file descriptor and the key of the node output it is listed under
Descriptors ==
    [key : {"images", "gifs", "videos", "output"}, filename : Filenames,
     subfolder : Subfolders]
    \cup [key : {"images", "gifs", "videos", "output"}, filename : {NoFilename},
          subfolder : {""}]

\* the descriptors listed under a key, in order
KeyFiles(ds, key) ==
    LET sel == SelectSeq(ds, LAMBDA d : d.key = key)
    IN  [k \in 1..Len(sel) |-> File(sel[k].filename, sel[k].subfolder)]

\* the node whose output lists the descriptors ds
NodeOf(ds) ==
    Node(KeyFiles(ds, "images"), KeyFiles(ds, "gifs"), KeyFiles(ds, "videos"),
         KeyFiles(ds, "output"))

\* outputs with up to MaxOutputs descriptors: all in one node, or one node each
CollectManifests ==
    {<<NodeOf(ds)>> : ds \in SeqsUpTo(Descriptors, MaxOutputs)}
    \cup {[k \in 1..Len(ds) |-> NodeOf(<<ds[k]>>)] : ds \in SeqsUpTo(Descriptors, MaxOutputs)}

InitCollect ==
    /\ entry = "process_output_files"
    /\ pc = "collect"
    /\ job_input = [raw |-> "none", parses |-> FALSE, value |-> None]
    /\ polling_max_retries = 0
    /\ probe_retries = 0
    /\ probe_delay = 0
    /\ history \in {[entry |-> TRUE, outputs |-> m] : m \in CollectManifests}
    /\ InitCommon

NextCollect == Collect

SpecCollect == InitCollect /\ [][NextCollect]_vars

Next ==
    \/ Validate
    \/ CheckServerAttempt
    \/ CheckServerExhausted
    \/ UploadStart
    \/ UploadEntry
    \/ UploadFinish
    \/ QueueWorkflow
    \/ PollAttempt
    \/ PollExhausted
    \/ Collect

Spec == Init /\ [][Next]_vars

\* ================================================================= claims
InStages(s) == \E k \in 1..Len(stages) : stages[k] = s
StagePrefix(k) == SubSeq(StageOrder, 1, k)
NoNetworkCall ==
    /\ ready_gets = 0
    /\ download_gets = <<>>
    /\ upload_posts = <<>>
    /\ prompt_posts = 0
    /\ history_gets = 0

\* C1 (state part): the stages entered are an initial piece of Validating,
\* ProbingReadiness, Uploading, Submitting, Polling, Collecting, optionally
\* followed by Done, so none is skipped and none is entered twice; a stage
\* that failed terminally is the last one before Done; and an HTTP call of a
\* stage has been made only if that stage was entered.
C1_Inv ==
    /\ \E k \in 1..Len(StageOrder) :
         stages = StagePrefix(k) \/ stages = StagePrefix(k) \o <<"Done">>
    /\ (pc = "done") = (stages[Len(stages)] = "Done")
    /\ failed # "none" =>
         /\ pc = "done"
         /\ \E k \in 1..Len(StageOrder) :
              StageOrder[k] = failed /\ stages = StagePrefix(k) \o <<"Done">>
    /\ ready_gets > 0 => InStages("ProbingReadiness")
    /\ (download_gets # <<>> \/ upload_posts # <<>>) => InStages("Uploading")
    /\ prompt_posts > 0 => InStages("Submitting")
    /\ history_gets > 0 => InStages("Polling")

\* C1 (step part): every HTTP call is made while the handler is in the stage
\* the call belongs to, and a step leaves the stage log alone or adds one stage.
C1_Step ==
    /\ ready_gets' # ready_gets => stages[Len(stages)] = "ProbingReadiness"
    /\ (download_gets' # download_gets \/ upload_posts' # upload_posts)
         => stages[Len(stages)] = "Uploading"
    /\ prompt_posts' # prompt_posts => stages[Len(stages)] = "Submitting"
    /\ history_gets' # history_gets => stages[Len(stages)] = "Polling"
    /\ \/ stages' = stages
       \/ \E s \in {"ProbingReadiness", "Uploading", "Submitting", "Polling",
                    "Collecting", "Done"} : stages' = Append(stages, s)

\* C1: for every job the handler runs its stages only in the order Validating,
\* ProbingReadiness, Uploading, Submitting, Polling, Collecting, Done; no stage
\* is entered before its predecessor finished or re-entered, and after a
\* terminal failure no later stage and no HTTP call of a later stage happens.
C1_StageOrder == [] C1_Inv /\ [][C1_Step]_vars

\* C1 witness: a job went through all six stages and returned.
C1_Witness ==
    /\ stages = StageOrder \o <<"Done">>
    /\ returned = "value"
    /\ history_gets > 0

\* C2: on a fatal path (a stage failed terminally) what the handler returns
\* is a record with the single key error.
C2_FatalErrorShape ==
    (failed # "none" /\ returned = "value") => DOMAIN result = {"error"}

\* C3: if an entry of the images list failed in upload_images (its outcome is
\* anything but a POST answered 200) and upload_images is over, then
\* upload_images returned status "error" and the handler has ended without a
\* POST /prompt, without a history GET and without collecting.
C3_UploadFailureHalts ==
    ((\E k \in 1..Len(entry_outcomes) : entry_outcomes[k] # "post_200")
        /\ pc # "upload_loop")
    => /\ upload_result # None
       /\ upload_result.status = "error"
       /\ pc = "done"
       /\ prompt_posts = 0
       /\ history_gets = 0
       /\ ~InStages("Submitting") /\ ~InStages("Polling") /\ ~InStages("Collecting")

\* C3 witness: the upload endpoint answered an entry with a non-200 status
\* and upload_images has returned.
C3_Witness ==
    /\ \E k \in 1..Len(entry_outcomes) : entry_outcomes[k] = "post_non200"
    /\ upload_result # None
    /\ pc = "done"

\* the job input is an object (given as such or as a JSON string)
InputIsObject == job_input.parses /\ job_input.value.kind = "object"

\* C4: for every job input that is an object without the workflow key,
\* validation fails with the missing-workflow error and the handler returns
\* it without any network call.
C4_MissingWorkflowNoNetwork ==
    (InputIsObject /\ job_input.value.workflow = "absent" /\ pc # "validate")
    => /\ pc = "done"
       /\ returned = "value"
       /\ result = [error |-> MSG_NO_WORKFLOW]
       /\ NoNetworkCall

\* C4 witness: an input without workflow, with a well-formed images list, has
\* been validated.
C4_Witness ==
    /\ InputIsObject
    /\ job_input.value.workflow = "absent"
    /\ job_input.value.images.is = "list"
    /\ Len(job_input.value.images.items) > 0
    /\ \A k \in 1..Len(job_input.value.images.items) :
         job_input.value.images.items[k].name # NoName
         /\ job_input.value.images.items[k].image
    /\ pc = "done"

\* an entry of the images list lacks name, or lacks both image and url
HasMalformedEntry ==
    /\ InputIsObject
    /\ job_input.value.images.is = "list"
    /\ \E k \in 1..Len(job_input.value.images.items) :
         LET e == job_input.value.images.items[k]
         IN  e.name = NoName \/ (~e.image /\ ~e.url)

\* C5 as stated: every job input whose images list has a malformed entry
\* fails with the malformed-images error before any upload attempt.
C5_MalformedImagesError ==
    (HasMalformedEntry /\ pc # "validate")
    => /\ pc = "done"
       /\ returned = "value"
       /\ result = [error |-> MSG_BAD_IMAGES]
       /\ download_gets = <<>>
       /\ upload_posts = <<>>

\* C5 amended: such an input fails validation before any upload attempt, with
\* the malformed-images error when it has a workflow and with the
\* missing-workflow error (the earlier rule) when it has none.
C5_MalformedImagesFail ==
    (HasMalformedEntry /\ pc # "validate")
    => /\ pc = "done"
       /\ returned = "value"
       /\ result = [error |-> IF job_input.value.workflow = "graph"
                              THEN MSG_BAD_IMAGES ELSE MSG_NO_WORKFLOW]
       /\ download_gets = <<>>
       /\ upload_posts = <<>>

\* C5 witness: an input with a workflow and an entry that has image and url
\* but no name has been rejected.
C5_Witness ==
    /\ HasMalformedEntry
    /\ job_input.value.workflow = "graph"
    /\ \E k \in 1..Len(job_input.value.images.items) :
         LET e == job_input.value.images.items[k]
         IN  e.name = NoName /\ e.image /\ e.url
    /\ result = [error |-> MSG_BAD_IMAGES]
    /\ pc = "done"

\* the number of history GETs a retry budget allows
PollBudget == IF polling_max_retries > 0 THEN polling_max_retries ELSE 0

\* C6: in the polling loop with retry budget P, every history response
\* without an entry for the id or with empty outputs is followed by a sleep
\* and another pass; the first response with an entry and non-empty outputs
\* ends the polling on that pass; at most P history GETs are issued; and the
\* result is the max-retries error exactly when all P passes were unsatisfied.
C6_PollingLoop ==
    /\ history_gets <= PollBudget
    /\ retries = poll_sleeps
    /\ pc = "poll" => history_gets = poll_sleeps
    /\ (last_poll = "response" /\ ~(history.entry /\ history.outputs # <<>>))
         => /\ poll_sleeps = history_gets
            /\ pc = "poll" \/ (pc = "done" /\ result = [error |-> MSG_MAX_RETRIES])
    /\ (last_poll = "response" /\ history.entry /\ history.outputs # <<>>)
         => /\ history_gets = poll_sleeps + 1
            /\ InStages("Collecting")
    /\ (pc = "done" /\ prompt_id # "unset" /\ poll_sleeps >= polling_max_retries)
         => (returned = "value" /\ result = [error |-> MSG_MAX_RETRIES])
    /\ (returned = "value" /\ result = [error |-> MSG_MAX_RETRIES])
         => (poll_sleeps = PollBudget /\ history_gets = PollBudget)

\* C6 witness: after an unsatisfied response and a sleep, a response with
\* outputs ended the polling.
C6_Witness ==
    /\ pc = "collect"
    /\ poll_sleeps >= 1
    /\ history.entry /\ history.outputs # <<>>

\* C7: when a history GET raises, the handler aborts at once: that GET is
\* the last one, the collector is never run, and the result is an error.
C7_PollExceptionAborts ==
    last_poll = "exception"
    => /\ pc = "done"
       /\ returned = "value"
       /\ DOMAIN result = {"error"}
       /\ history_gets = poll_sleeps + 1
       /\ ~InStages("Collecting")

\* C7 witness: the second history GET raised.
C7_Witness ==
    /\ last_poll = "exception"
    /\ history_gets = 2
    /\ pc = "done"

\* C8: the readiness probe never fails the pipeline: whatever check_server
\* returns, the handler goes on to the Uploading stage, nothing is returned
\* while probing, and every error the handler returns comes from the failure
\* of another stage (or from the collector).
C8_ProbeNeverFails ==
    /\ failed # "ProbingReadiness"
    /\ pc = "check_server" => returned = "no"
    /\ server_ready # "pending" => (Len(stages) >= 3 /\ stages[3] = "Uploading")
    /\ (returned = "value" /\ "error" \in DOMAIN result)
         => failed \in {"Validating", "Submitting", "Polling"}
    /\ (returned = "value" /\ "status" \in DOMAIN result /\ result.status = "error")
         => (failed = "Uploading" \/ InStages("Collecting"))

\* C8 witness: check_server returned False after all its attempts and the
\* handler is uploading.
C8_Witness ==
    /\ server_ready = "false"
    /\ ready_gets = COMFY_API_AVAILABLE_MAX_RETRIES
    /\ pc = "upload_images"

\* an upper bound on the steps the handler still has to take
ImagesLeft ==
    IF validated_data = None \/ NoImages(validated_data.images) THEN 0
    ELSE Len(validated_data.images.items) + 1 - idx
StepsLeft ==
    LET polling == PollBudget + 2
        uploading == MaxImages + 2 + polling + 1
    IN  CASE pc = "done" -> 0
          [] pc = "collect" -> 1
          [] pc = "poll" -> (IF polling_max_retries > retries
                             THEN polling_max_retries - retries ELSE 0) + 2
          [] pc = "queue_workflow" -> polling + 1
          [] pc = "upload_loop" -> ImagesLeft + 1 + polling + 1
          [] pc = "upload_images" -> uploading
          [] pc = "check_server" -> (IF probe_retries > i THEN probe_retries - i ELSE 0)
                                    + 1 + uploading
          [] OTHER -> COMFY_API_AVAILABLE_MAX_RETRIES + 2 + uploading

\* C9: as every HTTP call returns or raises, every call of handler reaches a
\* final result and cannot loop forever: until it has ended the handler
\* always has a next step, every step brings it closer to the end (the steps
\* left, at most R passes of the probe loop and P of the polling loop, go
\* down), so the probe loop makes at most R GETs and the polling loop at most P.
C9_Terminates ==
    /\ [](ready_gets <= probe_retries /\ history_gets <= PollBudget)
    /\ [](pc # "done" => ENABLED Next)
    /\ [](pc = "done" => returned # "no")
    /\ [][StepsLeft' < StepsLeft /\ StepsLeft' >= 0]_vars

\* C9 witness: the handler has ended after both loops ran out of attempts.
C9_Witness ==
    /\ pc = "done"
    /\ server_ready = "false"
    /\ ready_gets = COMFY_API_AVAILABLE_MAX_RETRIES
    /\ polling_max_retries = MaxPollingRetries
    /\ history_gets = polling_max_retries
    /\ result = [error |-> MSG_MAX_RETRIES]

\* C10: check_server(url, R, D) issues at most R GETs; the first GET
\* answered 200 makes it return True at once, with no GET after it; a GET
\* that raises or answers another status is followed by a sleep of D; and it
\* returns False exactly when all R attempts were not ready.
C10_CheckServer ==
    /\ ready_gets <= probe_retries
    /\ probe_sleeps = i
    /\ slept_ms = i * probe_delay
    /\ last_status = "200" => server_ready = "true"
    /\ server_ready = "pending"
         => (pc = "check_server" /\ ready_gets = probe_sleeps)
    /\ server_ready = "true"
         => /\ pc = "done"
            /\ last_status = "200"
            /\ ready_gets = probe_sleeps + 1
            /\ result = [value |-> TRUE]
    /\ server_ready = "false"
         => /\ pc = "done"
            /\ last_status # "200"
            /\ ready_gets = probe_retries
            /\ result = [value |-> FALSE]
    /\ pc = "done" => (server_ready = "false") = (probe_sleeps = probe_retries)

\* C10 witness: two attempts were not ready, each followed by a sleep, and
\* the third GET was answered 200.
C10_Witness ==
    /\ server_ready = "true"
    /\ probe_sleeps = 2
    /\ probe_delay > 0
    /\ slept_ms = 2 * probe_delay
    /\ probe_retries > 3

\* the images list upload_images was called with
UploadInput == IF validated_data = None THEN <<>> ELSE validated_data.images.items
\* upload_images has returned
UploadOver == upload_result # None
\* entry k of the list succeeded: its content was resolved and its POST answered 200
EntrySucceeded(k) == entry_outcomes[k] = "post_200"
\* the entries processed so far that failed, in list order
FailedEntries == {k \in 1..Len(entry_outcomes) : ~EntrySucceeded(k)}

\* C11: if every entry of the images list uploaded successfully,
\* upload_images returns status "success" and details has exactly one entry
\* per input entry, each naming that entry, in the order of the input list.
C11_SuccessDetailsInOrder ==
    (UploadOver /\ \A k \in 1..Len(entry_outcomes) : EntrySucceeded(k))
    => /\ Len(entry_outcomes) = Len(UploadInput)
       /\ upload_result.status = "success"
       /\ Len(upload_result.details) = Len(UploadInput)
       /\ \A k \in 1..Len(UploadInput) :
            upload_result.details[k] = [msg |-> "Uploaded", name |-> UploadInput[k].name]

\* C11 witness: a list of two entries with different names, fetched from a
\* url and given inline, uploaded successfully.
C11_Witness ==
    /\ UploadOver
    /\ Len(UploadInput) = 2
    /\ UploadInput[1].name # UploadInput[2].name
    /\ UploadInput[1].url /\ ~UploadInput[2].url
    /\ \A k \in 1..2 : EntrySucceeded(k)
    /\ upload_result.status = "success"

\* the position in upload_errors of the message of the failed entry k
FailedRank(k) == Cardinality({j \in FailedEntries : j <= k})

\* C12: upload_images processes every entry of the list whatever happened to
\* the entries before it; its status is "success" if and only if all entries
\* succeeded; otherwise it is "error" and details holds one message per
\* failed entry, naming that entry, in list order.
C12_AllEntriesProcessed ==
    /\ pc = "upload_loop" => Len(entry_outcomes) = idx - 1
    /\ Len(upload_errors) = Cardinality(FailedEntries)
    /\ Len(upload_errors) + Len(responses) = Len(entry_outcomes)
    /\ UploadOver =>
         /\ Len(entry_outcomes) = Len(UploadInput)
         /\ (upload_result.status = "success") = (FailedEntries = {})
         /\ upload_result.status \in {"success", "error"}
         /\ upload_result.status = "error" =>
              /\ Len(upload_result.details) = Cardinality(FailedEntries)
              /\ \A k \in FailedEntries :
                   upload_result.details[FailedRank(k)].name = UploadInput[k].name

\* C12 witness: the first entry failed, the second was still processed and
\* uploaded, and the status is "error" with the one message.
C12_Witness ==
    /\ UploadOver
    /\ Len(entry_outcomes) = 2
    /\ ~EntrySucceeded(1) /\ EntrySucceeded(2)
    /\ upload_posts # <<>>
    /\ upload_result.status = "error"
    /\ Len(upload_result.details) = 1

\* how often a name is posted, and how many entries processed so far carry it
PostsOfName(n) == Cardinality({k \in 1..Len(upload_posts) : upload_posts[k] = n})
EntriesOfName(n) ==
    Cardinality({k \in 1..Len(entry_outcomes) : UploadInput[k].name = n})

\* C16 as stated: in one run of upload_images over a validated list, also
\* one in which two entries carry the same name, every name is the subject of
\* at most one POST /upload/image.
C16_OnePostPerName == \A n \in Names : PostsOfName(n) <= 1

\* C16 amended: every entry of the list is the subject of at most one POST,
\* so a name is posted at most as often as entries carry it (at most once
\* when the names of the list are distinct).
C16_OnePostPerEntry ==
    /\ Len(upload_posts) <= Len(entry_outcomes)
    /\ Len(entry_outcomes) <= Len(UploadInput)
    /\ \A n \in Names : PostsOfName(n) <= EntriesOfName(n)

\* C16 witness: a list of two entries with the same name was processed and
\* both were posted.
C16_Witness ==
    /\ UploadOver
    /\ Len(UploadInput) = 2
    /\ UploadInput[1].name = UploadInput[2].name
    /\ Len(upload_posts) = 2

\* validate_input accepted the input
InputAccepted == validated_data # None
\* validate_input was given an object with a workflow and an images list
InputHasImagesList ==
    /\ InputIsObject
    /\ job_input.value.workflow = "graph"
    /\ job_input.value.images.is = "list"

\* C17 as stated: validate_input accepts an images list only if every entry
\* has name and exactly one of image and url.
C17_ExactlyOneSource ==
    (InputAccepted /\ validated_data.images.is = "list")
    => \A k \in 1..Len(validated_data.images.items) :
         LET e == validated_data.images.items[k]
         IN  e.name # NoName /\ (e.image # e.url)

\* C17 amended: validate_input accepts an images list if and only if every
\* entry has name and at least one of image and url; an entry with neither
\* makes validation fail, an entry with both is accepted.
C17_AtLeastOneSource ==
    (InputHasImagesList /\ pc # "validate")
    => (InputAccepted =
          (\A k \in 1..Len(job_input.value.images.items) :
             LET e == job_input.value.images.items[k]
             IN  e.name # NoName /\ (e.image \/ e.url)))

\* C17 witness: a list with an entry that carries both image and url was accepted.
C17_Witness ==
    /\ InputAccepted
    /\ validated_data.images.is = "list"
    /\ \E k \in 1..Len(validated_data.images.items) :
         validated_data.images.items[k].image /\ validated_data.images.items[k].url

\* C18: validate_input is total: for a null input, for any string (no JSON,
\* or JSON of any kind) and for any object it ends by returning
\* (JobInput, null) or (null, ErrorMessage), the rules null, invalid JSON,
\* missing workflow, malformed images being applied in that order.
C18_ValidateTotal ==
    ((job_input.raw \in {"none", "str"} \/ job_input.value.kind = "object")
        /\ pc # "validate")
    => /\ ~(failed = "Validating" /\ returned = "exception")
       /\ InputAccepted \/ (returned = "value" /\ DOMAIN result = {"error"}
                            /\ result.error \in {MSG_NO_INPUT, MSG_BAD_JSON,
                                                 MSG_NO_WORKFLOW, MSG_BAD_IMAGES})
       /\ job_input.raw = "none" => result = [error |-> MSG_NO_INPUT]
       /\ (job_input.raw = "str" /\ ~job_input.parses) => result = [error |-> MSG_BAD_JSON]

\* the outputs manifest process_output_files was called with
CollectOutputs == history.outputs
\* process_output_files has ended
CollectOver == pc = "done" /\ collect_env # None
\* process_output_files returned a success result
CollectSucceeded ==
    /\ CollectOver
    /\ returned = "value"
    /\ result.status = "success"
\* some node of the manifest lists, under images, gifs, videos or output, a
\* descriptor that has a filename
ManifestHasFile ==
    \E n \in 1..Len(CollectOutputs) :
      \E list \in {CollectOutputs[n].images, CollectOutputs[n].gifs,
                   CollectOutputs[n].videos, CollectOutputs[n].output} :
        \E k \in 1..Len(list) : list[k].filename # NoFilename
FirstOf(S) == CHOOSE k \in S : \A j \in S : k <= j

\* C13: in a success result of process_output_files, primary_video is the
\* first video of files whose filename contains "-audio"; without such a
\* video it is the first video of files; without any video it is null.  With
\* videos clip.mp4 and clip-audio.mp4, in either order, it is clip-audio.mp4.
C13_PrimaryVideo ==
    CollectSucceeded =>
      LET files == result.files
          videos == {k \in 1..Len(files) : files[k].type = "video"}
          audio == {k \in videos : files[k].filename \in AudioFilenames}
      IN  /\ audio # {} => result.primary_video = files[FirstOf(audio)]
          /\ (audio = {} /\ videos # {}) => result.primary_video = files[FirstOf(videos)]
          /\ videos = {} => result.primary_video = None
          /\ (\E j, k \in videos : files[j].filename = "clip.mp4"
                                   /\ files[k].filename = "clip-audio.mp4")
               => result.primary_video.filename = "clip-audio.mp4"

\* C13 witness: the videos clip.mp4 and clip-audio.mp4 came in this order and
\* the second was selected.
C13_Witness ==
    /\ CollectSucceeded
    /\ Len(result.files) = 2
    /\ result.files[1].type = "video" /\ result.files[1].filename = "clip.mp4"
    /\ result.files[2].type = "video" /\ result.files[2].filename = "clip-audio.mp4"
    /\ result.primary_video = result.files[2]

C15_OneResultPerRecord ==
    CollectSucceeded =>
      LET records == OutputFiles(CollectOutputs)
      IN  /\ Len(result.files) = Len(records)
          /\ \A k \in 1..Len(records) :
               /\ result.files[k].type = records[k].type
               /\ result.files[k].filename = records[k].path[Len(records[k].path)]
               /\ result.files[k].status =
                    (IF records[k].path \notin collect_env.exists THEN "missing"
                     ELSE IF collect_env.bucket THEN "uploaded" ELSE "base64")
          /\ \A k \in 1..Len(file_ops) :
               file_ops[k].op = IF collect_env.bucket THEN "upload_image" ELSE "base64_encode"

\* C15 witness: with an endpoint configured, an image on disk was uploaded and
\* a video that is not on disk was reported missing.
C15_Witness ==
    /\ CollectSucceeded
    /\ collect_env.bucket
    /\ Len(result.files) = 2
    /\ result.files[1] = [type |-> "image", filename |-> "img.png", status |-> "uploaded",
                          url |-> "uploaded_url"]
    /\ result.files[2].type = "video" /\ result.files[2].status = "missing"

\* C19: if the manifest yields no OutputRecord (no node lists a descriptor
\* with a filename under images, gifs, videos or output),
\* process_output_files returns an error result that carries no files, and
\* no file is read, encoded or uploaded.
C19_NoOutputsError ==
    (CollectOver /\ ~ManifestHasFile)
    => /\ returned = "value"
       /\ result.status = "error"
       /\ "files" \notin DOMAIN result
       /\ "primary_video" \notin DOMAIN result
       /\ file_ops = <<>>

\* C19 witness: the manifest has a node whose only descriptor has no
\* filename, and the call returned the error result.
C19_Witness ==
    /\ CollectOver
    /\ Len(CollectOutputs) = 1
    /\ CollectOutputs[1].videos = <<[filename |-> NoFilename, subfolder |-> ""]>>
    /\ ~ManifestHasFile
    /\ result.status = "error"

\* C20: with a polling retry cap P of 0 or less, the handler, after a
\* successful submission, issues no history GET and returns the max-retries
\* error; and in every run that reaches the collector the history the
\* handler holds is a response with an entry for the job that has non-empty
\* outputs.
C20_ZeroBudgetAndHistory ==
    /\ (polling_max_retries <= 0 /\ prompt_id # "unset")
         => /\ history_gets = 0
            /\ pc \in {"poll", "done"}
            /\ pc = "done" => (returned = "value" /\ result = [error |-> MSG_MAX_RETRIES])
    /\ InStages("Collecting")
         => /\ history_gets >= 1
            /\ last_poll = "response"
            /\ history.entry
            /\ history.outputs # <<>>

\* C20 witness: with a negative cap the handler queued the workflow and
\* returned the max-retries error.
C20_Witness ==
    /\ polling_max_retries < 0
    /\ prompt_id # "unset"
    /\ pc = "done"
    /\ result = [error |-> MSG_MAX_RETRIES]

====
